---- MODULE Spec2Model ----
(***************************************************************************)
(* Two units of the repository are modelled here.                          *)
(*                                                                         *)
(*  - crates/polars-ops/src/series/ops/clip.rs: the element-wise clip      *)
(*    kernel with its four broadcast paths (specification SpecClip).       *)
(*  - crates/polars-plan/.../projection_pushdown/functions/unpivot.rs:     *)
(*    the projection-pushdown handler of the unpivot node, stepped         *)
(*    statement by statement (specification Spec).                         *)
(*                                                                         *)
(* Each specification leaves the variables of the other unit at a fixed    *)
(* idle value.                                                             *)
(***************************************************************************)
EXTENDS Integers, Sequences, FiniteSets, TLC

VARIABLES
    \* ---- clip.rs ----
    s,          \* the series to clip (Option values)
    min,        \* the lower-bound series
    max,        \* the upper-bound series
    cpc,        \* "call" before clip runs, "ret" after, "idle" under Spec
    out,        \* what clip produced
    \* ---- unpivot.rs ----
    pc,                 \* position inside process_unpivot
    args,               \* UnpivotArgsIR: [index, on]
    input,              \* handle of the child node
    node,               \* handle the unpivot node was taken from
    ctx,                \* the ProjectionContext received from the parent
    lp_arena,           \* Arena<IR>: handle -> node
    lp_arena0,          \* the arena as it was when the handler was entered
    acc_projections,    \* forwardable group returned by the split
    local_projections,  \* local group (extended) kept for the wrapping projection
    projected_names,    \* names returned by the split
    child_ctx,          \* the context built for the child
    lp,                 \* handle of the rebuilt unpivot node (0: not built)
    calls,              \* the helpers invoked so far, in order
    raised,             \* the error a callee failed with ("" if none)
    ret                 \* what process_unpivot gave back to its caller

clipVars == <<s, min, max, cpc, out>>

unpivotVars == <<pc, args, input, node, ctx, lp_arena, lp_arena0, acc_projections,
                 local_projections, projected_names, child_ctx, lp, calls, raised, ret>>

vars == <<s, min, max, cpc, out, pc, args, input, node, ctx, lp_arena, lp_arena0,
          acc_projections, local_projections, projected_names, child_ctx, lp, calls,
          raised, ret>>

(***************************************************************************)
(* Bounds of the model.                                                    *)
(***************************************************************************)
MaxLen == 2
MaxVal == 2
MaxReq == 3

(***************************************************************************)
(* Option<T::Native>: None is the empty sequence, Some(v) is <<v>>.        *)
(***************************************************************************)
None == <<>>
Some(v) == <<v>>
IsSome(o) == Len(o) = 1
Unwrap(o) == o[1]

Val == 0 .. MaxVal
OptVal == {None} \cup {Some(v) : v \in Val}

SeriesOfLen(n) == [1 .. n -> OptVal]
AllSeries == UNION {SeriesOfLen(n) : n \in 0 .. MaxLen}

Min2(a, b) == IF a <= b THEN a ELSE b
Max2(a, b) == IF a >= b THEN a ELSE b

(***************************************************************************)
(* num_traits::clamp, clamp_min, clamp_max as called from clip.rs.  clamp  *)
(* carries debug_assert!(min <= max): clamp_asserts is the condition under *)
(* which a build with debug assertions aborts.                             *)
(***************************************************************************)
clamp(x, mn, mx) == IF x < mn THEN mn ELSE IF x > mx THEN mx ELSE x
clamp_min(x, mn) == IF x < mn THEN mn ELSE x
clamp_max(x, mx) == IF x > mx THEN mx ELSE x
clamp_asserts(mn, mx) == mn > mx

(***************************************************************************)
(* The arity kernels zip their operands chunk by chunk: the result has the *)
(* length of the shortest operand.                                         *)
(***************************************************************************)
clip_unary(ca, op) ==
    [i \in 1 .. Len(ca) |-> IF IsSome(ca[i]) THEN Some(op[Unwrap(ca[i])]) ELSE None]

clip_binary(ca, bound, op) ==
    [i \in 1 .. Min2(Len(ca), Len(bound)) |->
        IF IsSome(ca[i])
        THEN IF IsSome(bound[i])
             THEN Some(op[Unwrap(ca[i]), Unwrap(bound[i])])
             ELSE Some(Unwrap(ca[i]))
        ELSE None]

clip_ternary(ca, mn, mx) ==
    [i \in 1 .. Min2(Len(ca), Min2(Len(mn), Len(mx))) |->
        IF ~IsSome(ca[i]) THEN None
        ELSE IF IsSome(mn[i]) /\ IsSome(mx[i])
             THEN Some(clamp(Unwrap(ca[i]), Unwrap(mn[i]), Unwrap(mx[i])))
        ELSE IF IsSome(mn[i])
             THEN Some(clamp_min(Unwrap(ca[i]), Unwrap(mn[i])))
        ELSE IF IsSome(mx[i])
             THEN Some(clamp_max(Unwrap(ca[i]), Unwrap(mx[i])))
        ELSE ca[i]]

clip_helper_both_bounds(ca, mn, mx) ==
    IF Len(mn) = 1 /\ Len(mx) = 1 THEN
        IF IsSome(mn[1]) /\ IsSome(mx[1])
        THEN clip_unary(ca, [v \in Val |-> clamp(v, Unwrap(mn[1]), Unwrap(mx[1]))])
        ELSE IF IsSome(mn[1])
        THEN clip_unary(ca, [v \in Val |-> clamp_min(v, Unwrap(mn[1]))])
        ELSE IF IsSome(mx[1])
        THEN clip_unary(ca, [v \in Val |-> clamp_max(v, Unwrap(mx[1]))])
        ELSE ca
    ELSE IF Len(mn) = 1 THEN
        IF IsSome(mn[1])
        THEN clip_binary(ca, mx, [v \in Val, b \in Val |-> clamp(v, Unwrap(mn[1]), b)])
        ELSE clip_binary(ca, mx, [v \in Val, b \in Val |-> clamp_max(v, b)])
    ELSE IF Len(mx) = 1 THEN
        IF IsSome(mx[1])
        THEN clip_binary(ca, mn, [v \in Val, b \in Val |-> clamp(v, b, Unwrap(mx[1]))])
        ELSE clip_binary(ca, mn, [v \in Val, b \in Val |-> clamp_min(v, b)])
    ELSE clip_ternary(ca, mn, mx)

(***************************************************************************)
(* clip: the dtype check, the length check against the first length that   *)
(* is not 1, then the kernel.  strict_cast and to_physical_repr are taken  *)
(* on bounds that already have the dtype of s, where they keep the values. *)
(***************************************************************************)
CommonLen(lens) ==
    IF lens[1] # 1 THEN lens[1]
    ELSE IF lens[2] # 1 THEN lens[2]
    ELSE IF lens[3] # 1 THEN lens[3]
    ELSE 1

LengthsOk(lens) ==
    LET n == CommonLen(lens) IN \A i \in 1 .. 3 : lens[i] = n \/ lens[i] = 1

\* The element of a bound series that position i is compared with.
BoundAt(b, i) == IF Len(b) = 1 THEN b[1] ELSE b[i]

\* clamp's debug assertion fires at some position the kernel reaches.
ClampAborts(ca, mn, mx) ==
    \E i \in 1 .. Len(clip_helper_both_bounds(ca, mn, mx)) :
        /\ IsSome(ca[i]) /\ IsSome(BoundAt(mn, i)) /\ IsSome(BoundAt(mx, i))
        /\ clamp_asserts(Unwrap(BoundAt(mn, i)), Unwrap(BoundAt(mx, i)))

clip(ca, mn, mx, numeric, debug) ==
    IF ~numeric THEN [kind |-> "err", err |-> "InvalidOperation", val |-> <<>>]
    ELSE IF ~LengthsOk(<<Len(ca), Len(mn), Len(mx)>>)
    THEN [kind |-> "err", err |-> "ShapeMismatch", val |-> <<>>]
    ELSE IF debug /\ ClampAborts(ca, mn, mx)
    THEN [kind |-> "panic", err |-> "debug_assert", val |-> <<>>]
    ELSE [kind |-> "ok", err |-> "", val |-> clip_helper_both_bounds(ca, mn, mx)]

NoOut == [kind |-> "none", err |-> "", val |-> <<>>]

NoCtx == [acc_projections |-> <<>>, projected_names |-> {}]
NoRet == [kind |-> "none", err |-> "", plan |-> <<>>]

UnpivotIdle ==
    /\ pc = "idle" /\ args = [index |-> <<>>, on |-> <<>>] /\ input = 0 /\ node = 0
    /\ ctx = NoCtx /\ lp_arena = <<>> /\ lp_arena0 = <<>>
    /\ acc_projections = <<>> /\ local_projections = <<>> /\ projected_names = {}
    /\ child_ctx = NoCtx /\ lp = 0 /\ calls = <<>> /\ raised = "" /\ ret = NoRet

ClipIdle ==
    /\ s = <<>> /\ min = <<>> /\ max = <<>> /\ cpc = "idle" /\ out = NoOut

ClipInit ==
    /\ UnpivotIdle
    /\ s \in AllSeries
    /\ min \in AllSeries
    /\ max \in AllSeries
    /\ cpc = "call"
    /\ out = NoOut

Clip ==
    /\ cpc = "call"
    /\ \E numeric \in BOOLEAN, debug \in BOOLEAN :
           out' = clip(s, min, max, numeric, debug)
    /\ cpc' = "ret"
    /\ UNCHANGED <<s, min, max>>
    /\ UNCHANGED unpivotVars

ClipNext == Clip

SpecClip == ClipInit /\ [][ClipNext]_vars

(***************************************************************************)
(*                       process_unpivot (unpivot.rs)                      *)
(***************************************************************************)
Range(q) == {q[i] : i \in DOMAIN q}

FilterSeq(q, keep) ==
    LET Test(x) == x \in keep IN SelectSeq(q, Test)

NoDupSeqs(S, n) ==
    {q \in UNION {[1 .. k -> S] : k \in 0 .. n} :
        \A i, j \in DOMAIN q : i # j => q[i] # q[j]}

(***************************************************************************)
(* Plan nodes.  A schema is the ordered list of its column names.          *)
(***************************************************************************)
Scan(schema) ==
    [kind |-> "Scan", input |-> 0, schema |-> schema, index |-> <<>>, on |-> <<>>]

\* Plan Builder, unpivot: the index columns, then the key and value columns.
UnpivotSchema(childSchema, a) == a.index \o <<"variable", "value">>

Unpivot(child, childSchema, a) ==
    [kind |-> "Unpivot", input |-> child, schema |-> UnpivotSchema(childSchema, a),
     index |-> a.index, on |-> a.on]

SimpleProjection(child, columns) ==
    [kind |-> "SimpleProjection", input |-> child, schema |-> columns,
     index |-> <<>>, on |-> <<>>]

\* Plan Builder: a node is built by allocating a new arena entry.
ArenaAdd(arena, n) == Append(arena, n)

(***************************************************************************)
(* Context splitting: the required expressions whose column exists in the  *)
(* child's schema are forwardable, the others local; each group keeps the  *)
(* order of the input.  The names are those to fetch from the child.       *)
(***************************************************************************)
split_acc_projections(acc, down_schema) ==
    [acc_projections   |-> FilterSeq(acc, Range(down_schema)),
     local_projections |-> FilterSeq(acc, Range(acc) \ Range(down_schema)),
     projected_names   |-> Range(acc) \cap Range(down_schema)]

ProjectionContextNew(acc, names) == [acc_projections |-> acc, projected_names |-> names]

add_str_to_accumulated(name, c) ==
    IF name \in c.projected_names THEN c
    ELSE [acc_projections |-> Append(c.acc_projections, name),
          projected_names |-> c.projected_names \cup {name}]

RECURSIVE AddAll(_, _)
AddAll(names, c) ==
    IF names = <<>> THEN c
    ELSE AddAll(Tail(names), add_str_to_accumulated(Head(names), c))

(***************************************************************************)
(* The driver on the child: an empty context requests every column, any    *)
(* other context narrows the node's output to the requested columns.  The  *)
(* arena slot of the node is reassigned to the rewritten node.             *)
(***************************************************************************)
Narrow(n, c) ==
    IF c.acc_projections = <<>> THEN n
    ELSE [n EXCEPT !.schema = FilterSeq(n.schema, c.projected_names)]

pushdown_and_assign(arena, h, c) == [arena EXCEPT ![h] = Narrow(arena[h], c)]

\* Restart fallback: the inputs of lp are rewritten under a fresh, empty context.
no_pushdown_restart_opt(arena, n) == pushdown_and_assign(arena, n.input, NoCtx)

\* Plan Builder, projection: fails when a projected column is not in the schema.
project_simple_nodes_fails(schema, columns) == \E c \in Range(columns) : c \notin Range(schema)

Errors == {"SchemaMismatch", "ComputeError"}

(***************************************************************************)
(* The statements of process_unpivot.                                      *)
(***************************************************************************)
\* line 13: which branch is taken
uses_restart_index(a) == a.index = <<>>
uses_restart(a) == a.on = <<>>

\* lines 24-26: the local group is extended with the forwardable group
extend_local_forwardable_first(local, acc) == IF local # <<>> THEN acc \o local ELSE local
extend_local_not_extended(local, acc) == local
extend_local(local, acc) == IF local # <<>> THEN local \o acc ELSE local

\* lines 27-35: the child context, with the index and on columns added
child_context_without_on(acc, names, a) ==
    AddAll(a.index, ProjectionContextNew(acc, names))
child_context_everything_when_empty(acc, names, a) ==
    IF acc = <<>> THEN ProjectionContextNew(acc, names)
    ELSE AddAll(a.on, AddAll(a.index, ProjectionContextNew(acc, names)))
child_context(acc, names, a) ==
    AddAll(a.on, AddAll(a.index, ProjectionContextNew(acc, names)))

\* line 37: the node whose subtree is rewritten
pushdown_node_self(inp, self) == self
pushdown_node(inp, self) == inp

\* line 44: whether the rebuilt node is returned as it is
returns_unwrapped_always(local) == TRUE
returns_unwrapped(local) == local = <<>>

Ok(plan) == [kind |-> "ok", err |-> "", plan |-> plan]
Err(e) == [kind |-> "err", err |-> e, plan |-> <<>>]
Panic(e) == [kind |-> "panic", err |-> e, plan |-> <<>>]

\* line 37: the ? operator hands the callee's error to the caller
try_err(e) == Err(e)

\* line 49: unwrap aborts on an error
unwrap_err(e) == Panic(e)

ChildCols == <<"id", "year2020", "year2021", "extra">>
ChildSchemas == {FilterSeq(ChildCols, sub) : sub \in SUBSET Range(ChildCols)}
IndexLists == {<<>>, <<"id">>}
OnLists == {<<>>, <<"year2020">>, <<"year2020", "year2021">>, <<"year2021", "year2020">>}
RequiredCols == {"id", "variable", "value", "year2020", "extra"}
RequiredLists == NoDupSeqs(RequiredCols, MaxReq)

Init ==
    /\ ClipIdle
    /\ \E schema \in ChildSchemas, index \in IndexLists, on \in OnLists :
        /\ Range(index) \cup Range(on) \subseteq Range(schema)
        /\ args = [index |-> index, on |-> on]
        /\ lp_arena = <<Scan(schema), Unpivot(1, schema, [index |-> index, on |-> on])>>
    /\ input = 1
    /\ node = 2
    /\ lp_arena0 = lp_arena
    /\ \E acc \in RequiredLists :
        ctx = [acc_projections |-> acc, projected_names |-> Range(acc)]
    /\ pc = "start"
    /\ acc_projections = <<>> /\ local_projections = <<>> /\ projected_names = {}
    /\ child_ctx = NoCtx /\ lp = 0 /\ calls = <<>> /\ raised = "" /\ ret = NoRet

\* lines 13-15: on is empty, the restart fallback decides the result
Restart ==
    /\ pc = "start"
    /\ uses_restart(args)
    /\ calls' = Append(calls, "no_pushdown_restart_opt")
    /\ \/ /\ lp_arena' = no_pushdown_restart_opt(lp_arena, lp_arena[node])
          /\ ret' = Ok(lp_arena[node])
          /\ UNCHANGED raised
       \/ \E e \in Errors :
          /\ raised' = e
          /\ ret' = Err(e)
          /\ UNCHANGED lp_arena
    /\ pc' = "done"
    /\ UNCHANGED <<args, input, node, ctx, lp_arena0, acc_projections, local_projections,
                   projected_names, child_ctx, lp>>
    /\ UNCHANGED clipVars

\* lines 17-26
Split ==
    /\ pc = "start"
    /\ ~uses_restart(args)
    /\ LET sp == split_acc_projections(ctx.acc_projections, lp_arena[input].schema) IN
        /\ acc_projections' = sp.acc_projections
        /\ local_projections' = extend_local(sp.local_projections, sp.acc_projections)
        /\ projected_names' = sp.projected_names
    /\ calls' = Append(calls, "split_acc_projections")
    /\ pc' = "context"
    /\ UNCHANGED <<args, input, node, ctx, lp_arena, lp_arena0, child_ctx, lp, raised, ret>>
    /\ UNCHANGED clipVars

\* lines 27-35
Context ==
    /\ pc = "context"
    /\ child_ctx' = child_context(acc_projections, projected_names, args)
    /\ calls' = calls \o [i \in 1 .. Len(args.index) + Len(args.on) |-> "add_str_to_accumulated"]
    /\ pc' = "recurse"
    /\ UNCHANGED <<args, input, node, ctx, lp_arena, lp_arena0, acc_projections,
                   local_projections, projected_names, lp, raised, ret>>
    /\ UNCHANGED clipVars

\* line 37
Recurse ==
    /\ pc = "recurse"
    /\ calls' = Append(calls, "pushdown_and_assign")
    /\ \/ /\ lp_arena' = pushdown_and_assign(lp_arena, pushdown_node(input, node), child_ctx)
          /\ pc' = "rebuild"
          /\ UNCHANGED <<raised, ret>>
       \/ \E e \in Errors :
          /\ raised' = e
          /\ ret' = try_err(e)
          /\ pc' = "done"
          /\ UNCHANGED lp_arena
    /\ UNCHANGED <<args, input, node, ctx, lp_arena0, acc_projections, local_projections,
                   projected_names, child_ctx, lp>>
    /\ UNCHANGED clipVars

\* lines 40-42
Rebuild ==
    /\ pc = "rebuild"
    /\ lp_arena' = ArenaAdd(lp_arena, Unpivot(input, lp_arena[input].schema, args))
    /\ lp' = Len(lp_arena) + 1
    /\ calls' = Append(calls, "unpivot")
    /\ pc' = "finish"
    /\ UNCHANGED <<args, input, node, ctx, lp_arena0, acc_projections, local_projections,
                   projected_names, child_ctx, raised, ret>>
    /\ UNCHANGED clipVars

\* lines 44-51
Finish ==
    /\ pc = "finish"
    /\ IF returns_unwrapped(local_projections)
       THEN /\ ret' = Ok(lp_arena[lp])
            /\ UNCHANGED <<lp_arena, calls, raised>>
       ELSE /\ calls' = Append(calls, "project_simple_nodes")
            /\ IF project_simple_nodes_fails(lp_arena[lp].schema, local_projections)
               THEN /\ raised' = "SchemaMismatch"
                    /\ ret' = unwrap_err("SchemaMismatch")
                    /\ UNCHANGED lp_arena
               ELSE /\ lp_arena' = ArenaAdd(lp_arena, SimpleProjection(lp, local_projections))
                    /\ ret' = Ok(SimpleProjection(lp, local_projections))
                    /\ UNCHANGED raised
    /\ pc' = "done"
    /\ UNCHANGED <<args, input, node, ctx, lp_arena0, acc_projections, local_projections,
                   projected_names, child_ctx, lp>>
    /\ UNCHANGED clipVars

Next ==
    \/ Restart
    \/ Split
    \/ Context
    \/ Recurse
    \/ Rebuild
    \/ Finish

Spec == Init /\ [][Next]_vars

(***************************************************************************)
(*                               Properties                                *)
(***************************************************************************)
Static == args.on # <<>>
Required == ctx.acc_projections
ChildSchema0 == lp_arena0[input].schema
ChildSchema == lp_arena[input].schema
IndexOn == Range(args.index) \cup Range(args.on)
Returned == pc = "done" /\ ret.kind = "ok"
Wrapped == Static /\ Returned /\ ret.plan.kind = "SimpleProjection"

\* C1: for an unpivot node with non-empty on and any required set, the context
\* handed to the rewrite of the child contains every index and every on column,
\* and each of them is in the schema of the rewritten child.
C1_IndexOnInChildContext ==
    (Static /\ pc \in {"recurse", "rebuild", "finish", "done"}) =>
        /\ \A c \in IndexOn :
              c \in child_ctx.projected_names /\ c \in Range(child_ctx.acc_projections)
        /\ pc # "recurse" => \A c \in IndexOn : c \in Range(ChildSchema)

\* The child has been rewritten and narrowed although the parent asked for
\* none of the index or on columns.
C1_Witness ==
    /\ Static /\ pc = "rebuild"
    /\ Required = <<"value">>
    /\ IndexOn # {}
    /\ ChildSchema # ChildSchema0

\* C2: with an empty on list the handler only invokes the restart fallback on
\* the node it was given and returns its result: nothing is split, no child
\* context is built, nothing is rebuilt or wrapped, no column below is pruned.
C2_EmptyOnRestarts ==
    (~Static /\ pc = "done") =>
        /\ calls = <<"no_pushdown_restart_opt">>
        /\ acc_projections = <<>> /\ local_projections = <<>> /\ projected_names = {}
        /\ child_ctx = NoCtx /\ lp = 0
        /\ lp_arena = lp_arena0
        /\ ret.kind \in {"ok", "err"}
        /\ ret.kind = "ok" => (ret.plan = lp_arena0[node] /\ raised = "")
        /\ ret.kind = "err" => (ret.err = raised /\ raised \in Errors)

\* The fallback returned for a parent that required one column of a wider child.
C2_Witness ==
    /\ ~Static /\ Returned
    /\ Required = <<"id">>
    /\ "extra" \in Range(ChildSchema0)

Scenario3 ==
    /\ ChildSchema0 = <<"id", "year2020", "year2021">>
    /\ args = [index |-> <<"id">>, on |-> <<"year2020", "year2021">>]
    /\ Required = <<"id", "value">>

\* C3 as stated: in the scenario child {id, year2020, year2021}, index [id],
\* on [year2020, year2021], required {id, value}, the rebuilt unpivot node
\* itself is returned, with output {id, variable, value}, and no projection.
C3_Original ==
    (Scenario3 /\ Returned) =>
        /\ ret.plan.kind = "Unpivot"
        /\ ret.plan.schema = <<"id", "variable", "value">>

\* C3 amended: in that scenario value is not a column of the child, so it is
\* local: the handler returns a projection [value, id] over the rebuilt unpivot
\* node, whose output is {id, variable, value}; the child is asked for
\* {id, year2020, year2021}.
C3_ScenarioWrapped ==
    (Scenario3 /\ pc = "done") =>
        /\ ret.kind # "panic"
        /\ ret.kind = "ok" =>
            /\ ret.plan = SimpleProjection(lp, <<"value", "id">>)
            /\ lp_arena[lp].kind = "Unpivot"
            /\ lp_arena[lp].schema = <<"id", "variable", "value">>
            /\ child_ctx.projected_names = {"id", "year2020", "year2021"}
            /\ ChildSchema = <<"id", "year2020", "year2021">>

C3_Witness == Scenario3 /\ Returned

\* C4 as stated: whenever the rebuilt node is wrapped in a projection, the
\* output columns of the returned plan are the required columns in the order in
\* which the parent required them.
C4_Original == Wrapped => ret.plan.schema = Required

\* C4 amended: whenever the rebuilt node is wrapped in a projection, the output
\* columns are the required columns (same set, none twice) with every local
\* column before every forwardable one, each group in the parent's order.
C4_LocalThenForwardable ==
    Wrapped =>
        LET o == ret.plan.schema
            cs == Range(ChildSchema0)
        IN  /\ Range(o) = Range(Required)
            /\ Len(o) = Len(Required)
            /\ FilterSeq(o, cs) = FilterSeq(Required, cs)
            /\ FilterSeq(o, Range(o) \ cs) = FilterSeq(Required, Range(Required) \ cs)
            /\ \A i, j \in DOMAIN o : (o[i] \in cs /\ o[j] \notin cs) => j < i

\* A wrapped result whose required list had a forwardable column first.
C4_Witness ==
    /\ Wrapped
    /\ Len(Required) = 2
    /\ Required[1] \in Range(ChildSchema0)
    /\ Required[2] \notin Range(ChildSchema0)

\* C5 as stated: every failure inside the static branch, of the child rewrite
\* or of building the wrapping projection, reaches the caller as the returned
\* error, unchanged; the handler never aborts; after a failed child rewrite no
\* node has been built.
C5_Original ==
    (Static /\ pc = "done" /\ raised # "") =>
        /\ ret = Err(raised)
        /\ (calls[Len(calls)] = "pushdown_and_assign") =>
              (lp = 0 /\ Len(lp_arena) = Len(lp_arena0))

C9_WrapIffLocal ==
    (Static /\ Returned) =>
        LET sp == split_acc_projections(Required, ChildSchema0)
            fwd == sp.acc_projections
        IN  /\ lp_arena[lp] = Unpivot(input, ChildSchema, args)
            /\ (ret.plan = lp_arena[lp]) <=> (sp.local_projections = <<>>)
            /\ sp.local_projections # <<>> =>
                  ret.plan = SimpleProjection(lp, sp.local_projections \o fwd)
            /\ SubSeq(child_ctx.acc_projections, 1, Len(fwd)) = fwd
            /\ Range(child_ctx.acc_projections) = Range(fwd) \cup IndexOn
            /\ child_ctx.projected_names = sp.projected_names \cup IndexOn
            /\ Range(sp.local_projections) \cap child_ctx.projected_names = {}

\* A projection was returned for a required list with both groups non-empty.
C9_Witness ==
    /\ Wrapped
    /\ acc_projections # <<>>
    /\ Len(local_projections) > Len(acc_projections)

C8_ClipWithinBounds ==
    (/\ cpc = "ret" /\ out.kind = "ok"
     /\ Len(s) = CommonLen(<<Len(s), Len(min), Len(max)>>)) =>
        LET o == out.val
            full(b) == [i \in 1 .. Len(o) |-> BoundAt(b, i)]
        IN  /\ Len(o) = Len(s)
            /\ \A i \in 1 .. Len(o) :
                LET lo == BoundAt(min, i)
                    hi == BoundAt(max, i)
                IN  /\ ~IsSome(s[i]) => o[i] = None
                    /\ IsSome(s[i]) =>
                        /\ IsSome(o[i])
                        /\ (~IsSome(lo) /\ ~IsSome(hi)) => o[i] = s[i]
                        /\ (IsSome(lo) /\ ~IsSome(hi)) =>
                              Unwrap(o[i]) = Max2(Unwrap(s[i]), Unwrap(lo))
                        /\ (~IsSome(lo) /\ IsSome(hi)) =>
                              Unwrap(o[i]) = Min2(Unwrap(s[i]), Unwrap(hi))
                        /\ (IsSome(lo) /\ IsSome(hi) /\ Unwrap(lo) <= Unwrap(hi)) =>
                              /\ Unwrap(lo) <= Unwrap(o[i])
                              /\ Unwrap(o[i]) <= Unwrap(hi)
                              /\ (Unwrap(lo) <= Unwrap(s[i]) /\ Unwrap(s[i]) <= Unwrap(hi))
                                    => o[i] = s[i]
            /\ o = clip_ternary(s, full(min), full(max))

====
